---- MODULE Spec2Model ----
(***************************************************************************)
(* Model of the pump.fun Go SDK: the quote functions (calculateBuyQuote,   *)
(* calculateSellQuote), the priority-fee estimator, the instruction        *)
(* assemblers and the three public operations BuyToken, SellToken and      *)
(* CreateToken, stepped at every call to the ledger client.                *)
(*                                                                         *)
(* Scaling.  uint64/int64 are modelled with IntWidth bits instead of 64,   *)
(* the float64 slippage multiplier as a fixed-point number with FracBits   *)
(* fractional bits, and one 8-byte little-endian field of the account data *)
(* as one word.  A Go panic is the position pc = "panic".                  *)
(***************************************************************************)
EXTENDS Integers, Sequences, FiniteSets, TLC

\* ---------------------------------------------------------------- bounds
IntWidth == 4
FracBits == 10
MaxFee == 3
MaxSamples == 2

\* ------------------------------------------------------ program constants
ComputeUnitLimit == 250000
BuyComputeUnitPrice == 100000
SellComputeUnitPrice == 10000
SlippageDivisor == 10000
MinCurveWords == 3

Mainnet == "CebN5WGQ4jvEPvsVU4EoHEpgzq1VV7AbicfhtW4xC9iM"
Devnet == "68yFSZxzLWJXkxxRGydZ63C6mHx1NLEDWmwN9Lb5yySg"
\* 32 bytes of which some are Mainnet's and some Devnet's.
Torn == "torn"

\* ------------------------------------------------------------ integer types
TwoW == 2 ^ IntWidth
MaxUint64 == TwoW - 1
MaxInt == 2 ^ (IntWidth - 1) - 1
Uint64Values == 0 .. MaxUint64

Abs(z) == IF z < 0 THEN 0 - z ELSE z

\* int64(x) of an unsigned x: two's complement reinterpretation.
ToInt64(x) == IF x > MaxInt THEN x - TwoW ELSE x

\* (*big.Int).Uint64(): the low bits of the absolute value.
Uint64(z) == Abs(z) % TwoW

\* (*big.Int).Div: Euclidean division, d # 0 (d = 0 panics).
BigDiv(n, d) == IF d > 0 THEN n \div d ELSE 0 - (n \div (0 - d))

\* ------------------------------------------------------------ slippage
PctDen == 2 ^ FracBits

\* float64 division: the quotient rounded to the nearest representable value.
RoundDiv(n, d) == (2 * n + d) \div (2 * d)

\* 1.0 - float64(slippageBasisPoint)/10e3, as a numerator over PctDen.
convertSlippageBasisPointsToPercentage(slippageBasisPoint) ==
    PctDen - RoundDiv(slippageBasisPoint * PctDen, SlippageDivisor)

\* big.Float product of an integer and the multiplier, then Int(): truncation
\* toward zero.
MulTrunc(a, percentage) ==
    IF a * percentage >= 0
    THEN (a * percentage) \div PctDen
    ELSE 0 - ((0 - (a * percentage)) \div PctDen)

\* ------------------------------------------------------------ quote engine
\* bondingCurve is a record [real, vToken, vSol].
BuyQuotePanics(solAmount, bondingCurve) ==
    bondingCurve.vSol + ToInt64(solAmount) = 0

calculateBuyQuote(solAmount, bondingCurve, percentage) ==
    LET solAmountBig == ToInt64(solAmount)
        newVirtualSolReserves == bondingCurve.vSol + solAmountBig
        invariant == bondingCurve.vSol * bondingCurve.vToken
        newVirtualTokenReserves == BigDiv(invariant, newVirtualSolReserves)
        tokensToBuy == bondingCurve.vToken - newVirtualTokenReserves
    IN  MulTrunc(tokensToBuy, percentage)

SellQuotePanics(tokenAmount, bondingCurve) ==
    bondingCurve.vToken + ToInt64(tokenAmount) = 0

\* Variant of calculateSellQuote with the two virtual reserves exchanged.
calculateSellQuoteSwapped(tokenAmount, bondingCurve, percentage) ==
    LET amount == ToInt64(tokenAmount)
        x == bondingCurve.vToken * amount
        y == bondingCurve.vSol + amount
        a == IF y = 0 THEN 0 ELSE BigDiv(x, y)
    IN  MulTrunc(a, percentage)

calculateSellQuote(tokenAmount, bondingCurve, percentage) ==
    LET amount == ToInt64(tokenAmount)
        x == bondingCurve.vSol * amount
        y == bondingCurve.vToken + amount
        a == BigDiv(x, y)
    IN  MulTrunc(a, percentage)

\* ------------------------------------------------------------ decoder
\* fetchBondingCurve on a reply [status, data]: data is the account data in
\* 8-byte words; fewer than three words is "insufficient data length".
fetchBondingCurveFails(reply) ==
    reply.status # "ok" \/ Len(reply.data) < MinCurveWords

fetchBondingCurve(reply) ==
    [real |-> reply.data[1], vToken |-> reply.data[2], vSol |-> reply.data[3]]

\* ------------------------------------------------------------ fee estimator
RECURSIVE FeeLoop(_, _, _)
FeeLoop(out, i, median) ==
    IF i > Len(out) THEN median ELSE FeeLoop(out, i + 1, out[i])

FeePanics(out) == Len(out) = 0

getComputUnitPriceInstr(out) == FeeLoop(out, 1, 0) \div Len(out)

\* ------------------------------------------------------------ strconv
RECURSIVE FormatUint(_)
FormatUint(v) ==
    IF v < 10 THEN <<v>> ELSE Append(FormatUint(v \div 10), v % 10)

RECURSIVE ParseDigits(_, _, _)
ParseDigits(s, i, acc) ==
    IF i > Len(s) THEN acc ELSE ParseDigits(s, i + 1, acc * 10 + s[i])

\* strconv.Atoi: the value, or a range error above the largest int.
AtoiFails(s) == ParseDigits(s, 1, 0) > MaxInt
Atoi(s) == ParseDigits(s, 1, 0)

\* ------------------------------------------------------------ instructions
Instr(kind, a, b, fee) == [kind |-> kind, a |-> a, b |-> b, fee |-> fee]
CulInstr == Instr("computeUnitLimit", ComputeUnitLimit, 0, "")
CupInstr(price) == Instr("computeUnitPrice", price, 0, "")
AtaInstr == Instr("createAta", 0, 0, "")
CreateInstr == Instr("create", 0, 0, "")

\* shouldCreateAta on the outcome of GetAccountInfo.
shouldCreateAta(reply) == IF reply = "found" THEN FALSE ELSE TRUE


\* ------------------------------------------------------------ input sets
SolAmounts == {0, 1, MaxInt + 1, MaxUint64}
ReserveValues == {0, 1, MaxInt, MaxUint64}
RealValues == {2}
BalanceValues == {0, 1, MaxInt, MaxInt + 1}
SlippageValues == {0, 100, 10000, 20000}
FeeValues == 0 .. MaxFee

RECURSIVE SeqsUpTo(_, _)
SeqsUpTo(S, n) ==
    IF n = 0 THEN {<<>>}
    ELSE LET shorter == SeqsUpTo(S, n - 1)
         IN  shorter \cup {Append(q, x) : q \in shorter, x \in S}

FeeSamples == SeqsUpTo(FeeValues, MaxSamples)
CurveData ==
    {<<r, t, s>> : r \in RealValues, t \in ReserveValues, s \in ReserveValues}
        \cup {<<>>, <<2, 1>>}

NoCurve == [real |-> 0 - 1, vToken |-> 0 - 1, vSol |-> 0 - 1]
NoRoundTrip == [tokens |-> 0 - 1, sol |-> 0 - 1, panic |-> FALSE]

\* ------------------------------------------------------------ state
VARIABLES
    pumpFunFeeRecipient, \* the package-level fee recipient address
    settingDevnet,       \* SetDevnetMode's store to it is in progress
    curveExists,         \* ledger: the mint's bonding-curve account exists
    txStatus,            \* ledger: "none", "sent", "confirmed", "failed"
    op,                  \* the public operation in progress
    pc,                  \* its position
    amount,              \* buyAmountLamports / the sellTokenAmount argument
    slippageBasisPoint,
    all,
    sellTokenAmount,     \* getSellInstructions' local after substitution
    out,                 \* fee samples read by getComputUnitPriceInstr
    ataReply,            \* outcome of GetAccountInfo in shouldCreateAta
    balance,             \* tokenAccounts.Value.Amount, a digit string
    bondingCurve,        \* the decoded snapshot
    buyInstructions,     \* getBuyInstructions' list
    instructions,        \* the caller's list
    retSig,              \* a non-empty signature string was returned
    retErr,              \* a non-nil error was returned
    ledgerFault,         \* a ledger call failed or returned malformed data
    steps,               \* the external steps of the call so far, in order
    roundTrip            \* result of the quote round trip (SpecQuote only)

call == <<op, pc, amount, slippageBasisPoint, all, sellTokenAmount, out,
          ataReply, balance, bondingCurve, buyInstructions, instructions,
          retSig, retErr, ledgerFault, steps>>
vars == <<pumpFunFeeRecipient, settingDevnet, curveExists, txStatus, call, roundTrip>>

Init ==
    /\ pumpFunFeeRecipient = Mainnet
    /\ settingDevnet = FALSE
    /\ curveExists \in BOOLEAN
    /\ txStatus = "none"
    /\ op = "none"
    /\ pc = "idle"
    /\ amount = 0
    /\ slippageBasisPoint = 0
    /\ all = FALSE
    /\ sellTokenAmount = 0
    /\ out = <<>>
    /\ ataReply = "none"
    /\ balance = <<>>
    /\ bondingCurve = NoCurve
    /\ buyInstructions = <<>>
    /\ instructions = <<>>
    /\ retSig = FALSE
    /\ retErr = FALSE
    /\ ledgerFault = FALSE
    /\ steps = <<>>
    /\ roundTrip = NoRoundTrip

\* One external step of a call and whether it succeeded.
Step(name, ok) == [name |-> name, ok |-> ok]

\* NewTransaction with the user as fee payer, then tx.Sign: neither fails for
\* the instruction lists and signers the operations pass.
BuildAndSign == <<Step("newTransaction", TRUE), Step("sign", TRUE)>>

\* return "", err
Fail(fault) ==
    /\ pc' = "done"
    /\ retErr' = TRUE
    /\ ledgerFault' = (ledgerFault \/ fault)

CurveReplies ==
    {[status |-> "transport", data |-> <<>>]} \cup
    (IF curveExists
     THEN {[status |-> "ok", data |-> d] : d \in CurveData}
     ELSE {[status |-> "notfound", data |-> <<>>]})

\* An associated token account exists only for an existing mint.
AtaReplies ==
    {"notfound", "transport"} \cup (IF curveExists THEN {"found"} ELSE {})

CurveFault(reply) ==
    reply.status = "transport" \/ (reply.status = "ok" /\ Len(reply.data) < MinCurveWords)

\* ------------------------------------------------------------ SetDevnetMode
\* SetDevnetMode is one unsynchronised store of a 32-byte address.  The
\* store begins here and is complete at SetDevnetModeReturn; a call that reads
\* the variable in between races with it.
SetDevnetMode ==
    /\ ~settingDevnet
    /\ settingDevnet' = TRUE
    /\ UNCHANGED <<pumpFunFeeRecipient, curveExists, txStatus, call, roundTrip>>

SetDevnetModeReturn ==
    /\ settingDevnet
    /\ pumpFunFeeRecipient' = Devnet
    /\ settingDevnet' = FALSE
    /\ UNCHANGED <<curveExists, txStatus, call, roundTrip>>

\* What a read of pumpFunFeeRecipient yields: its value, or under a racing
\* store of a different address the old bytes, the new bytes or a mixture.
ReadFeeRecipient ==
    IF settingDevnet /\ pumpFunFeeRecipient # Devnet
    THEN {pumpFunFeeRecipient, Devnet, Torn}
    ELSE {pumpFunFeeRecipient}

\* ------------------------------------------------------------ BuyToken
\* Variant of BuyToken whose compute-unit price follows the network mode.
BuyTokenModePrice ==
    /\ pc = "idle"
    /\ \E a \in SolAmounts, bp \in SlippageValues :
         /\ amount' = a
         /\ slippageBasisPoint' = bp
    /\ op' = "buy"
    /\ instructions' =
         <<CulInstr, CupInstr(IF pumpFunFeeRecipient = Devnet
                              THEN SellComputeUnitPrice
                              ELSE BuyComputeUnitPrice)>>
    /\ pc' = "ata"
    /\ UNCHANGED <<pumpFunFeeRecipient, settingDevnet, curveExists, txStatus,
                   all, sellTokenAmount, out, ataReply, balance, bondingCurve,
                   buyInstructions, retSig, retErr, ledgerFault, steps,
                   roundTrip>>

BuyToken ==
    /\ pc = "idle"
    /\ \E a \in SolAmounts, bp \in SlippageValues :
         /\ amount' = a
         /\ slippageBasisPoint' = bp
    /\ op' = "buy"
    /\ instructions' = <<CulInstr, CupInstr(BuyComputeUnitPrice)>>
    /\ pc' = "ata"
    /\ UNCHANGED <<pumpFunFeeRecipient, settingDevnet,
                   curveExists, txStatus, all,
                   sellTokenAmount, out, ataReply, balance, bondingCurve,
                   buyInstructions, retSig, retErr, ledgerFault, steps,
                   roundTrip>>

\* getBuyInstructions up to the associated-token-account step.
getBuyInstructionsAta ==
    /\ pc = "ata"
    /\ \E reply \in AtaReplies :
         /\ ataReply' = reply
         /\ buyInstructions' =
              IF shouldCreateAta(reply) THEN <<AtaInstr>> ELSE <<>>
         /\ ledgerFault' = (ledgerFault \/ reply = "transport")
         /\ steps' = Append(steps, Step("getAccountInfo", reply # "transport"))
    /\ pc' = "curve"
    /\ UNCHANGED <<pumpFunFeeRecipient, settingDevnet,
                   curveExists, txStatus, op, amount,
                   slippageBasisPoint, all, sellTokenAmount, out, balance,
                   bondingCurve, instructions, retSig, retErr, roundTrip>>

\* getBuyInstructions from fetchBondingCurve on, and the caller's append.
getBuyInstructions ==
    /\ pc = "curve"
    /\ op \in {"buy", "create"}
    /\ \E reply \in CurveReplies, feeRecipient \in ReadFeeRecipient :
         /\ steps' = Append(steps, Step("fetchBondingCurve",
                                     ~fetchBondingCurveFails(reply)))
         /\ IF fetchBondingCurveFails(reply)
            THEN /\ Fail(CurveFault(reply))
                 /\ UNCHANGED <<bondingCurve, buyInstructions, instructions>>
            ELSE LET bc == fetchBondingCurve(reply)
                     percentage ==
                         convertSlippageBasisPointsToPercentage(slippageBasisPoint)
                 IN  /\ bondingCurve' = bc
                     /\ IF BuyQuotePanics(amount, bc)
                        THEN /\ pc' = "panic"
                             /\ UNCHANGED <<buyInstructions, instructions>>
                        ELSE /\ buyInstructions' = Append(buyInstructions,
                                   Instr("buy",
                                         Uint64(calculateBuyQuote(amount, bc, percentage)),
                                         amount, feeRecipient))
                             /\ instructions' = instructions \o buyInstructions'
                             /\ pc' = IF op = "buy" THEN "blockhash" ELSE "send"
                     /\ UNCHANGED <<retErr, ledgerFault>>
    /\ UNCHANGED <<pumpFunFeeRecipient, settingDevnet,
                   curveExists, txStatus, op, amount,
                   slippageBasisPoint, all, sellTokenAmount, out, ataReply,
                   balance, retSig, roundTrip>>

\* Variant of GetLatestBlockhash whose error is dropped.
GetLatestBlockhashIgnoresError ==
    /\ pc = "blockhash"
    /\ \E ok \in BOOLEAN :
         steps' = Append(steps, Step("getLatestBlockhash", ok))
    /\ pc' = IF op = "create" /\ amount > 0 THEN "ata" ELSE "send"
    /\ UNCHANGED <<pumpFunFeeRecipient, settingDevnet, curveExists, txStatus,
                   op, amount, slippageBasisPoint, all, sellTokenAmount, out,
                   ataReply, balance, bondingCurve, buyInstructions,
                   instructions, retSig, retErr, ledgerFault, roundTrip>>

\* rpcClient.GetLatestBlockhash in the three operations.
GetLatestBlockhash ==
    /\ pc = "blockhash"
    /\ \/ /\ Fail(TRUE)
          /\ steps' = Append(steps, Step("getLatestBlockhash", FALSE))
       \/ /\ pc' = IF op = "create" /\ amount > 0 THEN "ata" ELSE "send"
          /\ steps' = Append(steps, Step("getLatestBlockhash", TRUE))
          /\ UNCHANGED <<retErr, ledgerFault>>
    /\ UNCHANGED <<pumpFunFeeRecipient, settingDevnet,
                   curveExists, txStatus, op, amount,
                   slippageBasisPoint, all, sellTokenAmount, out, ataReply,
                   balance, bondingCurve, buyInstructions, instructions,
                   retSig, roundTrip>>

\* NewTransaction, Sign and rpcClient.SendTransaction of BuyToken/SellToken.
SendTransaction ==
    /\ pc = "send"
    /\ op \in {"buy", "sell"}
    /\ \/ /\ Fail(TRUE)
          /\ steps' = steps \o BuildAndSign
                         \o <<Step("sendTransaction", FALSE)>>
          /\ UNCHANGED <<txStatus, retSig>>
       \/ /\ txStatus' = "sent"
          /\ steps' = steps \o BuildAndSign
                         \o <<Step("sendTransaction", TRUE)>>
          /\ retSig' = TRUE
          /\ pc' = "done"
          /\ UNCHANGED <<retErr, ledgerFault>>
    /\ UNCHANGED <<pumpFunFeeRecipient, settingDevnet,
                   curveExists, op, amount,
                   slippageBasisPoint, all, sellTokenAmount, out, ataReply,
                   balance, bondingCurve, buyInstructions, instructions,
                   roundTrip>>


\* ------------------------------------------------------------ SellToken
SellToken ==
    /\ pc = "idle"
    /\ \E a \in SolAmounts, bp \in SlippageValues, al \in BOOLEAN :
         /\ amount' = a
         /\ sellTokenAmount' = a
         /\ slippageBasisPoint' = bp
         /\ all' = al
         /\ pc' = IF al THEN "balance" ELSE "curve"
    /\ op' = "sell"
    /\ instructions' = <<CulInstr, CupInstr(SellComputeUnitPrice)>>
    /\ UNCHANGED <<pumpFunFeeRecipient, settingDevnet,
                   curveExists, txStatus, out, ataReply,
                   balance, bondingCurve, buyInstructions, retSig, retErr,
                   ledgerFault, steps,
                   roundTrip>>

\* Variant of the "all" branch that reads the balance and keeps the
\* requested amount.
getSellInstructionsAllKeepsAmount ==
    /\ pc = "balance"
    /\ \/ /\ Fail(TRUE)
          /\ steps' = Append(steps, Step("getTokenAccountBalance", FALSE))
          /\ UNCHANGED <<balance, sellTokenAmount>>
       \/ \E v \in BalanceValues :
            LET s == FormatUint(v)
            IN  /\ balance' = s
                /\ steps' = Append(steps, Step("getTokenAccountBalance", TRUE))
                /\ UNCHANGED sellTokenAmount
                /\ IF AtoiFails(s)
                   THEN Fail(FALSE)
                   ELSE /\ pc' = "curve"
                        /\ UNCHANGED <<retErr, ledgerFault>>
    /\ UNCHANGED <<pumpFunFeeRecipient, settingDevnet,
                   curveExists, txStatus, op, amount,
                   slippageBasisPoint, all, out, ataReply, bondingCurve,
                   buyInstructions, instructions, retSig, roundTrip>>

\* getSellInstructions, the "all" branch: GetTokenAccountBalance and Atoi.
getSellInstructionsAll ==
    /\ pc = "balance"
    /\ \/ /\ Fail(TRUE)
          /\ steps' = Append(steps, Step("getTokenAccountBalance", FALSE))
          /\ UNCHANGED <<balance, sellTokenAmount>>
       \/ \E v \in BalanceValues :
            LET s == FormatUint(v)
            IN  /\ balance' = s
                /\ steps' = Append(steps, Step("getTokenAccountBalance", TRUE))
                /\ IF AtoiFails(s)
                   THEN /\ Fail(FALSE)
                        /\ UNCHANGED sellTokenAmount
                   ELSE /\ sellTokenAmount' = Atoi(s)
                        /\ pc' = "curve"
                        /\ UNCHANGED <<retErr, ledgerFault>>
    /\ UNCHANGED <<pumpFunFeeRecipient, settingDevnet,
                   curveExists, txStatus, op, amount,
                   slippageBasisPoint, all, out, ataReply, bondingCurve,
                   buyInstructions, instructions, retSig, roundTrip>>

\* getSellInstructions from fetchBondingCurve on, and the caller's append.
getSellInstructions ==
    /\ pc = "curve"
    /\ op = "sell"
    /\ \E reply \in CurveReplies, feeRecipient \in ReadFeeRecipient :
         /\ steps' = Append(steps, Step("fetchBondingCurve",
                                     ~fetchBondingCurveFails(reply)))
         /\ IF fetchBondingCurveFails(reply)
            THEN /\ Fail(CurveFault(reply))
                 /\ UNCHANGED <<bondingCurve, instructions>>
            ELSE LET bc == fetchBondingCurve(reply)
                     percentage ==
                         convertSlippageBasisPointsToPercentage(slippageBasisPoint)
                 IN  /\ bondingCurve' = bc
                     /\ IF SellQuotePanics(sellTokenAmount, bc)
                        THEN /\ pc' = "panic"
                             /\ UNCHANGED instructions
                        ELSE /\ instructions' = Append(instructions,
                                   Instr("sell", sellTokenAmount,
                                         Uint64(calculateSellQuote(sellTokenAmount, bc, percentage)),
                                         feeRecipient))
                             /\ pc' = "blockhash"
                     /\ UNCHANGED <<retErr, ledgerFault>>
    /\ UNCHANGED <<pumpFunFeeRecipient, settingDevnet,
                   curveExists, txStatus, op, amount,
                   slippageBasisPoint, all, sellTokenAmount, out, ataReply,
                   balance, buyInstructions, retSig, roundTrip>>

\* ------------------------------------------------------------ CreateToken
CreateToken ==
    /\ pc = "idle"
    /\ \E a \in SolAmounts, bp \in SlippageValues :
         /\ amount' = a
         /\ slippageBasisPoint' = bp
    /\ op' = "create"
    /\ pc' = "fees"
    /\ UNCHANGED <<pumpFunFeeRecipient, settingDevnet,
                   curveExists, txStatus, all,
                   sellTokenAmount, out, ataReply, balance, bondingCurve,
                   buyInstructions, instructions, retSig, retErr, ledgerFault,
                   steps,
                   roundTrip>>

\* CreateToken's compute-budget and create instructions: the call of
\* getComputUnitPriceInstr (GetRecentPrioritizationFees) and the list.
CreateTokenFees ==
    /\ pc = "fees"
    /\ \/ /\ Fail(TRUE)
          /\ steps' = Append(steps, Step("getRecentPrioritizationFees", FALSE))
          /\ UNCHANGED <<out, instructions>>
       \/ \E samples \in FeeSamples :
            /\ out' = samples
            /\ steps' = Append(steps, Step("getRecentPrioritizationFees", TRUE))
            /\ IF FeePanics(samples)
               THEN /\ pc' = "panic"
                    /\ UNCHANGED instructions
               ELSE /\ instructions' =
                         <<CulInstr, CupInstr(getComputUnitPriceInstr(samples)),
                           CreateInstr>>
                    /\ pc' = "blockhash"
            /\ UNCHANGED <<retErr, ledgerFault>>
    /\ UNCHANGED <<pumpFunFeeRecipient, settingDevnet,
                   curveExists, txStatus, op, amount,
                   slippageBasisPoint, all, sellTokenAmount, ataReply, balance,
                   bondingCurve, buyInstructions, retSig, roundTrip>>

\* confirm.SendAndConfirmTransaction, first half: the send.
SendAndConfirmTransaction ==
    /\ pc = "send"
    /\ op = "create"
    /\ \/ /\ Fail(TRUE)
          /\ steps' = steps \o BuildAndSign
                         \o <<Step("sendTransaction", FALSE)>>
          /\ UNCHANGED txStatus
       \/ /\ txStatus' = "sent"
          /\ steps' = steps \o BuildAndSign
                         \o <<Step("sendTransaction", TRUE)>>
          /\ pc' = "confirm"
          /\ UNCHANGED <<retErr, ledgerFault>>
    /\ UNCHANGED <<pumpFunFeeRecipient, settingDevnet,
                   curveExists, op, amount,
                   slippageBasisPoint, all, sellTokenAmount, out, ataReply,
                   balance, bondingCurve, buyInstructions, instructions,
                   retSig, roundTrip>>

\* Variant of the confirmation wait that returns the signature as soon as the
\* transaction is sent.
WaitForConfirmationSkipped ==
    /\ pc = "confirm"
    /\ retSig' = TRUE
    /\ pc' = "done"
    /\ steps' = Append(steps, Step("waitForConfirmation", TRUE))
    /\ UNCHANGED <<pumpFunFeeRecipient, settingDevnet,
                   curveExists, txStatus, op, amount,
                   slippageBasisPoint, all, sellTokenAmount, out, ataReply,
                   balance, bondingCurve, buyInstructions, instructions,
                   retErr, ledgerFault, roundTrip>>

\* confirm.SendAndConfirmTransaction, second half (the confirmation wait), and
\* CreateToken's return: the signature only when the library's err is nil.
WaitForConfirmation ==
    /\ pc = "confirm"
    /\ \/ /\ txStatus = "confirmed"
          /\ retSig' = TRUE
          /\ pc' = "done"
          /\ steps' = Append(steps, Step("waitForConfirmation", TRUE))
          /\ UNCHANGED <<retErr, ledgerFault>>
       \/ /\ txStatus = "failed"
          /\ Fail(FALSE)
          /\ steps' = Append(steps, Step("waitForConfirmation", FALSE))
          /\ UNCHANGED retSig
       \/ /\ Fail(TRUE)
          /\ steps' = Append(steps, Step("waitForConfirmation", FALSE))
          /\ UNCHANGED retSig
    /\ UNCHANGED <<pumpFunFeeRecipient, settingDevnet,
                   curveExists, txStatus, op, amount,
                   slippageBasisPoint, all, sellTokenAmount, out, ataReply,
                   balance, bondingCurve, buyInstructions, instructions,
                   roundTrip>>

\* ------------------------------------------------------------ the ledger
LedgerConfirm ==
    /\ txStatus = "sent"
    /\ op = "create" => ~curveExists
    /\ txStatus' = "confirmed"
    /\ curveExists' = (curveExists \/ op = "create")
    /\ UNCHANGED <<pumpFunFeeRecipient, settingDevnet,
                   call, roundTrip>>

LedgerReject ==
    /\ txStatus = "sent"
    /\ txStatus' = "failed"
    /\ UNCHANGED <<pumpFunFeeRecipient, settingDevnet, curveExists, call,
                   roundTrip>>

\* The caller has the result; the next call starts from fresh locals.
Return ==
    /\ pc = "done"
    /\ txStatus' = "none"
    /\ op' = "none"
    /\ pc' = "idle"
    /\ amount' = 0
    /\ slippageBasisPoint' = 0
    /\ all' = FALSE
    /\ sellTokenAmount' = 0
    /\ out' = <<>>
    /\ ataReply' = "none"
    /\ balance' = <<>>
    /\ bondingCurve' = NoCurve
    /\ buyInstructions' = <<>>
    /\ instructions' = <<>>
    /\ retSig' = FALSE
    /\ retErr' = FALSE
    /\ ledgerFault' = FALSE
    /\ steps' = <<>>
    /\ UNCHANGED <<pumpFunFeeRecipient, settingDevnet,
                   curveExists, roundTrip>>

Next ==
    \/ SetDevnetMode
    \/ SetDevnetModeReturn
    \/ BuyToken
    \/ getBuyInstructionsAta
    \/ getBuyInstructions
    \/ GetLatestBlockhash
    \/ SendTransaction
    \/ SellToken
    \/ getSellInstructionsAll
    \/ getSellInstructions
    \/ CreateToken
    \/ CreateTokenFees
    \/ SendAndConfirmTransaction
    \/ WaitForConfirmation
    \/ LedgerConfirm
    \/ LedgerReject
    \/ Return

Spec == Init /\ [][Next]_vars


\* ------------------------------------------------------------ quote round trip
\* The two quote functions applied to every IntWidth-bit input: a buy quote
\* with multiplier 1.0, then a sell quote of the returned token amount
\* against the same snapshot.
InitQuote ==
    /\ pumpFunFeeRecipient = Mainnet
    /\ settingDevnet = FALSE
    /\ curveExists = TRUE
    /\ txStatus = "none"
    /\ op = "quote"
    /\ pc = "quote"
    /\ amount \in Uint64Values
    /\ slippageBasisPoint = 0
    /\ all = FALSE
    /\ sellTokenAmount = 0
    /\ out = <<>>
    /\ ataReply = "none"
    /\ balance = <<>>
    /\ bondingCurve \in [real : RealValues, vToken : Uint64Values,
                         vSol : Uint64Values]
    /\ buyInstructions = <<>>
    /\ instructions = <<>>
    /\ retSig = FALSE
    /\ retErr = FALSE
    /\ ledgerFault = FALSE
    /\ steps = <<>>
    /\ roundTrip = NoRoundTrip

QuoteRoundTrip ==
    /\ pc = "quote"
    /\ pc' = "quoted"
    /\ LET percentage ==
               convertSlippageBasisPointsToPercentage(slippageBasisPoint)
       IN  IF BuyQuotePanics(amount, bondingCurve)
           THEN roundTrip' = [NoRoundTrip EXCEPT !.panic = TRUE]
           ELSE LET t == calculateBuyQuote(amount, bondingCurve, percentage)
                IN  IF SellQuotePanics(Uint64(t), bondingCurve)
                    THEN roundTrip' = [tokens |-> t, sol |-> 0 - 1,
                                       panic |-> TRUE]
                    ELSE roundTrip' =
                           [tokens |-> t,
                            sol |-> calculateSellQuote(Uint64(t), bondingCurve,
                                                       percentage),
                            panic |-> FALSE]
    /\ UNCHANGED <<pumpFunFeeRecipient, settingDevnet,
                   curveExists, txStatus, op, amount,
                   slippageBasisPoint, all, sellTokenAmount, out, ataReply,
                   balance, bondingCurve, buyInstructions, instructions,
                   retSig, retErr, ledgerFault, steps>>

NextQuote == QuoteRoundTrip

SpecQuote == InitQuote /\ [][NextQuote]_vars


\* ============================================================ properties
RECURSIVE SumSeq(_)
SumSeq(q) == IF q = <<>> THEN 0 ELSE q[1] + SumSeq(Tail(q))

Quoted == bondingCurve # NoCurve
LastInstr == instructions[Len(instructions)]
Submitted == txStatus # "none"
Pct == convertSlippageBasisPointsToPercentage(slippageBasisPoint)

\* C1: for every non-empty sequence of fee samples, the compute-unit price in
\* CreateToken's instruction list is the arithmetic mean of the samples
\* (their sum divided by their count, integer division).
C1_MeanPrice ==
    (op = "create" /\ Len(out) > 0) =>
        instructions[2] = CupInstr(SumSeq(out) \div Len(out))

\* C2: when the fee samples are empty, CreateToken ends with an error
\* returned to the caller: no panic, no signature, nothing submitted.
C2_NoFeeDataError ==
    (op = "create" /\ pc # "fees" /\ out = <<>>) =>
        (pc = "done" /\ retErr /\ ~retSig /\ ~Submitted)

\* C3: a submitted BuyToken transaction is the two compute-budget
\* instructions, then the associated-token-account creation exactly when the
\* account lookup reported "not found", then the buy instruction.
C3_AtaIffNotFound ==
    (op = "buy" /\ Submitted) =>
        /\ LastInstr.kind = "buy"
        /\ instructions =
             <<CulInstr, CupInstr(BuyComputeUnitPrice)>>
               \o (IF ataReply = "notfound" THEN <<AtaInstr>> ELSE <<>>)
               \o <<LastInstr>>

\* C4: when CreateToken returns an error, the result carries the signature
\* exactly when the transaction had been submitted (the confirmation wait
\* failed); every other failure returns no signature.
C4_PartialSubmission ==
    (op = "create" /\ pc = "done" /\ retErr) => (retSig <=> Submitted)

\* C5 (as stated): with positive virtual reserves and multiplier 1.0, the
\* sell quote of the tokens returned by the buy quote is at most solIn.
\* Inputs are kept below 2^(IntWidth-1), where the int64 conversions are
\* exact, so that a violation is one of the formula itself.
C5_RoundTrip ==
    (/\ pc = "quoted"
     /\ bondingCurve.vSol > 0 /\ bondingCurve.vToken > 0
     /\ amount <= MaxInt /\ bondingCurve.vToken <= MaxInt) =>
        (~roundTrip.panic /\ roundTrip.sol <= amount)

\* C5 (amended): the same round trip is at most solIn when moreover
\* virtualSol <= virtualToken, for solIn and virtualToken below 2^63.
C5_RoundTripAmended ==
    (/\ pc = "quoted"
     /\ bondingCurve.vSol > 0
     /\ bondingCurve.vSol <= bondingCurve.vToken
     /\ amount <= MaxInt /\ bondingCurve.vToken <= MaxInt) =>
        (~roundTrip.panic /\ roundTrip.sol <= amount)

C5_Witness ==
    /\ pc = "quoted"
    /\ bondingCurve.vSol > 1
    /\ bondingCurve.vSol <= bondingCurve.vToken
    /\ bondingCurve.vToken <= MaxInt
    /\ amount > 0 /\ amount <= MaxInt
    /\ ~roundTrip.panic
    /\ roundTrip.tokens > 0
    /\ roundTrip.sol > 0

C7_DivisionByZeroError ==
    (/\ Quoted
     /\ \/ op \in {"buy", "create"} /\ bondingCurve.vSol + amount = 0
        \/ op = "sell" /\ bondingCurve.vToken + sellTokenAmount = 0) =>
        (pc = "done" /\ retErr /\ ~retSig /\ ~Submitted)

\* C8: in SellToken with all = true the balance is read before the quote is
\* computed; the balance is the sell instruction's token amount and the input
\* of the sell quote; with balance 0 and virtualToken > 0 the quote is 0 and
\* the call goes on to build and submit the sell instruction.
C8_SellAll ==
    (op = "sell" /\ all) =>
        /\ balance = <<>> => (~Quoted /\ Len(instructions) = 2)
        /\ (Quoted /\ pc # "panic") =>
              /\ Len(instructions) = 3
              /\ instructions[3].kind = "sell"
              /\ instructions[3].a = ParseDigits(balance, 1, 0)
              /\ instructions[3].b =
                   Uint64(calculateSellQuote(ParseDigits(balance, 1, 0),
                                             bondingCurve, Pct))
        /\ (Quoted /\ balance = <<0>> /\ bondingCurve.vToken > 0) =>
              /\ pc \in {"blockhash", "send", "done"}
              /\ instructions[3] = Instr("sell", 0, 0, instructions[3].fee)
              /\ (pc = "done" /\ ~ledgerFault) => (retSig /\ Submitted)

C8_Witness ==
    /\ op = "sell" /\ all
    /\ amount > 0
    /\ balance = <<0>>
    /\ bondingCurve.vToken > 0 /\ bondingCurve.vSol > 0
    /\ pc = "done" /\ retSig /\ Submitted

\* C9: CreateToken whose ledger calls all succeed submits
\* [computeUnitLimit, computeUnitPrice(estimated), create] when the initial
\* buy amount is 0, and that list followed by the buy flow (optional
\* associated-account creation, then buy) when it is positive, for every
\* mint, a fresh one included.
C9_CreateWithBuy ==
    (op = "create" /\ pc = "done" /\ ~ledgerFault /\ out # <<>>) =>
        /\ Submitted
        /\ SubSeq(instructions, 1, 3) =
             <<CulInstr, CupInstr(getComputUnitPriceInstr(out)), CreateInstr>>
        /\ amount = 0 => Len(instructions) = 3
        /\ amount > 0 =>
             /\ Len(instructions) \in {4, 5}
             /\ LastInstr.kind = "buy"
             /\ Len(instructions) = 5 => instructions[4] = AtaInstr

TradeInstrs ==
    {instructions[i] : i \in {j \in DOMAIN instructions :
                                instructions[j].kind \in {"buy", "sell"}}}
DevnetCalled == settingDevnet \/ pumpFunFeeRecipient = Devnet

\* C11: the fee recipient of every buy and sell instruction is the mainnet
\* address unless SetDevnetMode has been called earlier; once SetDevnetMode
\* has returned, every trade instruction built afterwards carries the devnet
\* address; and a BuyToken call whose ledger steps all succeed returns a
\* signature and no error.
C11_FeeRecipient ==
    /\ [](\A i \in TradeInstrs : i.fee # Mainnet => DevnetCalled)
    /\ [][(pumpFunFeeRecipient = Devnet /\ pc = "curve"
              /\ Len(instructions') > Len(instructions)) =>
             instructions'[Len(instructions')].fee = Devnet]_vars
    /\ []((op = "buy" /\ Quoted /\ ~ledgerFault /\ pc \in {"done", "panic"}) =>
             (pc = "done" /\ retSig /\ ~retErr))


IsPrefix(a, b) == Len(a) <= Len(b) /\ a = SubSeq(b, 1, Len(a))
StepNames == [i \in 1 .. Len(steps) |-> steps[i].name]
Submit == <<"newTransaction", "sign", "sendTransaction">>
BuyReads == <<"getAccountInfo", "fetchBondingCurve">>
SellReads ==
    (IF all THEN <<"getTokenAccountBalance">> ELSE <<>>)
        \o <<"fetchBondingCurve">>
InCall == op \in {"buy", "sell", "create"}

\* The order of section 4.6: blockhash, then every read of the instruction
\* list, then construct, sign, submit.
ClaimedOrder ==
    IF op = "buy" THEN <<"getLatestBlockhash">> \o BuyReads \o Submit
    ELSE IF op = "sell" THEN <<"getLatestBlockhash">> \o SellReads \o Submit
    ELSE <<"getLatestBlockhash", "getRecentPrioritizationFees">>
            \o (IF amount > 0 THEN BuyReads ELSE <<>>)
            \o Submit \o <<"waitForConfirmation">>

\* The order of the code.
CodeOrder ==
    IF op = "buy" THEN BuyReads \o <<"getLatestBlockhash">> \o Submit
    ELSE IF op = "sell" THEN SellReads \o <<"getLatestBlockhash">> \o Submit
    ELSE <<"getRecentPrioritizationFees", "getLatestBlockhash">>
            \o (IF amount > 0 THEN BuyReads ELSE <<>>)
            \o Submit \o <<"waitForConfirmation">>

\* Every failed step outside Swallowed is the last step of the call, which
\* has ended with an error and no signature; a transaction is submitted only
\* by a successful sendTransaction step.
FailureEnds(Swallowed) ==
    /\ \A i \in 1 .. Len(steps) :
         (~steps[i].ok /\ steps[i].name \notin Swallowed) =>
             (i = Len(steps) /\ pc = "done" /\ retErr /\ ~retSig)
    /\ Submitted <=> Step("sendTransaction", TRUE) \in {steps[i] : i \in 1 .. Len(steps)}

ExpectedTrade(fee) ==
    IF op = "buy"
    THEN <<CulInstr, CupInstr(BuyComputeUnitPrice)>>
           \o (IF ataReply = "found" THEN <<>> ELSE <<AtaInstr>>)
           \o <<Instr("buy",
                      Uint64(calculateBuyQuote(amount, bondingCurve, Pct)),
                      amount, fee)>>
    ELSE LET n == IF all THEN Atoi(balance) ELSE amount
         IN  <<CulInstr, CupInstr(SellComputeUnitPrice),
               Instr("sell", n,
                     Uint64(calculateSellQuote(n, bondingCurve, Pct)), fee)>>

\* C13 (as stated): what a BuyToken/SellToken call submits is determined by
\* its own arguments and the ledger responses it received alone, whatever
\* other invocations (SetDevnetMode included) ran before or in between.
C13_NoSharedState ==
    (op \in {"buy", "sell"} /\ Submitted) => instructions = ExpectedTrade(Mainnet)

\* C13 (amended): the fee-recipient address is shared mutable state: the
\* trade instruction carries what the read of that variable yields when the
\* instruction is built (other than mainnet only once SetDevnetMode has been
\* called); everything else in the submitted list is determined by the
\* call's own arguments and ledger responses.
C13_OnlyFeeRecipientShared ==
    (op \in {"buy", "sell"} /\ Submitted) =>
        \E fee \in {Mainnet, Devnet, Torn} :
            /\ instructions = ExpectedTrade(fee)
            /\ fee # Mainnet => DevnetCalled

C13_Witness ==
    /\ op \in {"buy", "sell"}
    /\ Submitted
    /\ LastInstr.fee # Mainnet
    /\ instructions # ExpectedTrade(Mainnet)

\* The minimum bound carried by the trade instruction (token amount of a
\* buy, minimum SOL output of a sell) and the quote it was derived from.
Bound == IF LastInstr.kind = "buy" THEN LastInstr.a ELSE LastInstr.b
RawQuote ==
    IF LastInstr.kind = "buy"
    THEN calculateBuyQuote(LastInstr.b, bondingCurve, PctDen)
    ELSE calculateSellQuote(LastInstr.a, bondingCurve, PctDen)

\* floor(raw * (1 - bp/10000)) as an unsigned argument: 0 when non-positive.
SlippageFloor(raw, bp) ==
    IF bp >= SlippageDivisor THEN 0
    ELSE (raw * (SlippageDivisor - bp)) \div SlippageDivisor

\* The calls the claim is about: amounts and reserves for which the quote
\* itself is defined (positive reserves, amount within int64).
QuoteDefined ==
    /\ op \in {"buy", "sell"}
    /\ Quoted
    /\ bondingCurve.vSol > 0 /\ bondingCurve.vToken > 0
    /\ (IF op = "buy" THEN amount
        ELSE IF all THEN Atoi(balance) ELSE amount) <= MaxInt

\* C14: a slippage of 10,000 basis points or more is not rejected and the
\* minimum bound in the trade instruction is then 0; for every basis-point
\* value the bound is at most floor(raw * (1 - bp/10000)).
C14_SlippageBound ==
    QuoteDefined =>
        /\ pc # "panic"
        /\ LastInstr.kind = op
        /\ slippageBasisPoint >= SlippageDivisor => Bound = 0
        /\ Bound <= SlippageFloor(RawQuote, slippageBasisPoint)

====
